---- MODULE Spec2Model ----
(***************************************************************************)
(* github_trending.py: one run of the script.  The process asks the API   *)
(* for its rate limit, searches the repositories created during the last  *)
(* REPOSITORIES_CREATION_PERIOD days, fetches the open issues of each of   *)
(* the first top_size of them and prints the result.                       *)
(*                                                                         *)
(* The remote API (and the response cache in front of it) is the           *)
(* environment: every session.get draws its outcome from Responses and the *)
(* JSON body it parses from a bounded set.  Dates are day ordinals         *)
(* (date.toordinal()).                                                     *)
(***************************************************************************)
EXTENDS Integers, Sequences, FiniteSets, TLC

VARIABLES
    pc,                 \* position of the main block: Start, Trending, Enrich, Quota, Print, Exit
    today,              \* date.today() of the run
    top_size,           \* the count handed to get_trending_repositories
    http,               \* every session.get so far: <<request, response>> pairs, in order
    json,               \* the JSON body parsed from the latest response (response.json())
    outcome,            \* how the latest decorated call ended: return, raise or exit
    top_repos,          \* main's top_repos
    repos_with_issues,  \* the accumulator local to get_repos_with_issues
    repos_info,         \* main's repos_info
    printed,            \* the lines the latest step wrote to stdout
    stdout_log,         \* the kinds of blocks written to stdout since the start
    exit_code           \* the process's exit status, NoExit while it runs

vars == <<pc, today, top_size, http, json, outcome, top_repos,
          repos_with_issues, repos_info, printed, stdout_log, exit_code>>

----------------------------------------------------------------------------
(* Bounds of the model *)

MaxItems == 2       \* longest items array of a search response, and largest top_size
MaxIssues == 3      \* longest issues array of an issues response

(* Program constants *)

REPOSITORIES_CREATION_PERIOD == 7

NoExit == -1

Min(a, b) == IF a < b THEN a ELSE b

SeqsUpTo(S, n) == UNION {[1..k -> S] : k \in 0..n}

InjectiveSeqsUpTo(S, n) ==
    {s \in SeqsUpTo(S, n) : \A a, b \in 1..Len(s) : a # b => s[a] # s[b]}

Unbound == [bound |-> FALSE]
Bound(v) == [bound |-> TRUE, value |-> v]

----------------------------------------------------------------------------
(* The environment: what a session.get can come back with *)

TransportErrors == {"ConnectionError", "Timeout", "TooManyRedirects"}

Statuses == {200, 403, 500}

RemainingHeaders == {"0", "59"}

Responses ==
    [kind : {"response"}, status : Statuses, remaining : RemainingHeaders]
      \cup [kind : TransportErrors, status : {0}, remaining : {"0"}]

Days == {10, 11}

Repositories ==
    { [owner |-> [login |-> "o1"], name |-> "n1", stargazers_count |-> 30, created_at |-> 5],
      [owner |-> [login |-> "o2"], name |-> "n2", stargazers_count |-> 20, created_at |-> 4],
      [owner |-> [login |-> "o3"], name |-> "n3", stargazers_count |-> 10, created_at |-> 3] }

SearchBodies == [items : InjectiveSeqsUpTo(Repositories, MaxItems)]

\* An issues array: entry k has its own url; flags[k] tells whether the entry
\* carries the 'pull_request' key.
IssuesArray(owner, name, flags) ==
    [k \in 1..Len(flags) |->
        [url |-> <<owner, name, k>>, has_pull_request |-> flags[k]]]

IssuesArrays(owner, name) ==
    {IssuesArray(owner, name, flags) : flags \in SeqsUpTo(BOOLEAN, MaxIssues)}

Quotas ==
    { [remaining |-> 0, limit |-> 10, reset |-> 90],
      [remaining |-> 25, limit |-> 30, reset |-> 3725] }

RateLimitBodies ==
    [resources : [{"search", "core"} -> Quotas]
                   \cup [{"search", "core", "graphql"} -> Quotas]]

\* the body of an error response (or of no response) is no result document
ErrorBody == [message |-> "error"]

\* the bodies a response can carry: one of documents when its status is 200
BodiesOf(response, documents) ==
    IF response.kind = "response" /\ response.status = 200
    THEN documents
    ELSE {ErrorBody}

----------------------------------------------------------------------------
(* Results of a call *)

Return(v) == [tag |-> "return", value |-> v]
Raise(exc, response) == [tag |-> "raise", exc |-> exc, response |-> response]
SysExit(code, line) == [tag |-> "exit", code |-> code, line |-> line]

\* what is kept of a result once its value has been consumed
Ended(r) == IF r.tag = "return" THEN [tag |-> "return"] ELSE r

\* int(response.headers['X-RateLimit-Remaining'])
int(s) == CASE s = "0" -> 0
            [] s = "59" -> 59

\* response.raise_for_status() raises HTTPError
raise_for_status(response) == response.status >= 400 /\ response.status < 600

----------------------------------------------------------------------------
(* The functions of the script.  Each takes the outcome of its session.get  *)
(* and the JSON body the response would parse to.                           *)

HandledExceptions == {"ConnectionError", "HTTPError", "Timeout", "TooManyRedirects"}

\* the line the decorator prints for an exception of the requests library
ErrorLine(r) ==
    IF r.exc = "HTTPError" THEN <<"HTTPError", r.response.status>> ELSE <<r.exc>>

\* the decorator leaving with exit(0)
decorator_exit_zero(r) ==
    IF r.tag = "raise" /\ r.exc \in HandledExceptions
    THEN SysExit(0, ErrorLine(r))
    ELSE r

\* the decorator without its 'except Timeout' clause
decorator_without_timeout(r) ==
    IF r.tag = "raise" /\ r.exc \in HandledExceptions \ {"Timeout"}
    THEN SysExit(1, ErrorLine(r))
    ELSE r

\* handle_requests_library_exceptions: print and exit(1) on the four handled
\* exceptions, anything else (a value, GitHubRateLimitExceeded) passes through
decorator(r) ==
    IF r.tag = "raise" /\ r.exc \in HandledExceptions
    THEN SysExit(1, ErrorLine(r))
    ELSE r

\* an exception nothing catches ends the script: the interpreter writes the
\* traceback and the exit status is 1
unhandled(r) ==
    IF r.tag = "raise" THEN SysExit(1, <<"Traceback", r.exc>>) ELSE r

\* line 228: what 'except GitHubRateLimitExceeded' catches
except_GitHubRateLimitExceeded(r) ==
    r.tag = "raise" /\ r.exc = "GitHubRateLimitExceeded"

get_github_rate_limit(response, body) ==
    IF response.kind # "response" THEN Raise(response.kind, response)
    ELSE IF raise_for_status(response) THEN Raise("HTTPError", response)
    ELSE Return(body)

\* timedelta(weeks=REPOSITORIES_CREATION_PERIOD)
week_ago_in_weeks(day) == day - 7 * REPOSITORIES_CREATION_PERIOD

\* date.today() - timedelta(days=REPOSITORIES_CREATION_PERIOD)
week_ago(day) == day - REPOSITORIES_CREATION_PERIOD

search_request(day) == <<"search/repositories", week_ago(day), "stars", "desc">>

\* items[:n + 1]
slice_to_one_more(items, n) == SubSeq(items, 1, Min(n + 1, Len(items)))

\* items[:n] for n >= 0
slice_to(items, n) == SubSeq(items, 1, Min(n, Len(items)))

\* get_trending_repositories without the look at the quota header
get_trending_repositories_no_quota_check(response, body, n) ==
    IF response.kind # "response" THEN Raise(response.kind, response)
    ELSE IF raise_for_status(response) THEN Raise("HTTPError", response)
    ELSE Return(slice_to(body.items, n))

get_trending_repositories(response, body, n) ==
    IF response.kind # "response" THEN Raise(response.kind, response)
    ELSE IF int(response.remaining) = 0 THEN Raise("GitHubRateLimitExceeded", response)
    ELSE IF raise_for_status(response) THEN Raise("HTTPError", response)
    ELSE Return(slice_to(body.items, n))

issues_request(repo_owner, repo_name) == <<"issues", repo_owner, repo_name, "open">>

\* get_open_issues returning every entry, pull requests included
get_open_issues_unfiltered(response, issues) ==
    IF response.kind # "response" THEN Raise(response.kind, response)
    ELSE IF int(response.remaining) = 0 THEN Raise("GitHubRateLimitExceeded", response)
    ELSE IF raise_for_status(response) THEN Raise("HTTPError", response)
    ELSE Return(issues)

\* get_open_issues with the status looked at before the quota header
get_open_issues_status_first(response, issues) ==
    IF response.kind # "response" THEN Raise(response.kind, response)
    ELSE IF raise_for_status(response) THEN Raise("HTTPError", response)
    ELSE IF int(response.remaining) = 0 THEN Raise("GitHubRateLimitExceeded", response)
    ELSE Return(SelectSeq(issues, LAMBDA issue : ~issue.has_pull_request))

get_open_issues(response, issues) ==
    IF response.kind # "response" THEN Raise(response.kind, response)
    ELSE IF int(response.remaining) = 0 THEN Raise("GitHubRateLimitExceeded", response)
    ELSE IF raise_for_status(response) THEN Raise("HTTPError", response)
    ELSE Return(SelectSeq(issues, LAMBDA issue : ~issue.has_pull_request))

get_open_issues_urls(issues) == [k \in 1..Len(issues) |-> issues[k].url]

\* the loop putting each new item in front of the list
get_repos_with_issues_iteration_prepending(acc, repo, r) ==
    IF r.tag = "return"
    THEN [tag |-> "continue",
          acc |-> <<[repo |-> repo,
                     open_issues_urls |->
                        IF r.value # <<>> THEN get_open_issues_urls(r.value) ELSE <<>>]>>
                  \o acc]
    ELSE [tag |-> "leave", acc |-> <<>>]

\* the loop going on to the next repository, with no urls, when the fetch failed
get_repos_with_issues_iteration_skipping(acc, repo, r) ==
    [tag |-> "continue",
     acc |-> Append(acc,
               [repo |-> repo,
                open_issues_urls |->
                   IF r.tag = "return" THEN get_open_issues_urls(r.value) ELSE <<>>])]

\* one iteration of the loop of get_repos_with_issues, r being what the
\* decorated get_open_issues came back with: the accumulator grows, or the
\* exception (or the exit) leaves the function
get_repos_with_issues_iteration(acc, repo, r) ==
    IF r.tag = "return"
    THEN [tag |-> "continue",
          acc |-> Append(acc,
                    [repo |-> repo,
                     open_issues_urls |->
                        IF r.value # <<>> THEN get_open_issues_urls(r.value) ELSE <<>>])]
    ELSE [tag |-> "leave", acc |-> <<>>]

\* the lines print_repos_info writes for one item
repo_lines(item) ==
    << <<"owner", item.repo.owner.login>>,
       <<"name", item.repo.name>>,
       <<"stars", item.repo.stargazers_count>>,
       <<"issues", Len(item.open_issues_urls)>> >>
    \o (IF Len(item.open_issues_urls) # 0
        THEN <<<<"issue_urls">>>> \o
             [k \in 1..Len(item.open_issues_urls) |-> <<"url", item.open_issues_urls[k]>>]
        ELSE <<>>)

RECURSIVE print_repos_info(_)
print_repos_info(items) ==
    IF items = <<>> THEN <<>>
    ELSE repo_lines(Head(items)) \o print_repos_info(Tail(items))

\* time.strftime('%H:%M:%S %d.%m.%Y ', time.localtime(int(t))): hour, minute,
\* second and the day, for a zone at offset 0 and the day counted from the epoch
strftime_localtime(t) ==
    <<(t \div 3600) % 24, (t \div 60) % 60, t % 60, t \div 86400>>

print_github_api_rate_status(api_rate) ==
    << <<"search", api_rate.resources["search"].remaining,
                   api_rate.resources["search"].limit>>,
       <<"search_reset", strftime_localtime(api_rate.resources["search"].reset)>> >>
    \o (IF "graphql" \in DOMAIN api_rate.resources
        THEN << <<"graphql", api_rate.resources["graphql"].remaining,
                             api_rate.resources["graphql"].limit>>,
                <<"graphql_reset",
                  strftime_localtime(api_rate.resources["search"].reset)>> >>
        ELSE <<>>)
    \o << <<"core", api_rate.resources["core"].remaining,
                    api_rate.resources["core"].limit>>,
          <<"core_reset", strftime_localtime(api_rate.resources["core"].reset)>> >>

----------------------------------------------------------------------------
(* The main block *)

NoJson == [of |-> "none"]

Init ==
    /\ pc = "Start"
    /\ today \in Days
    /\ top_size \in 0..MaxItems
    /\ http = <<>>
    /\ json = NoJson
    /\ outcome = [tag |-> "none"]
    /\ top_repos = Unbound
    /\ repos_with_issues = <<>>
    /\ repos_info = Unbound
    /\ printed = <<>>
    /\ stdout_log = <<>>
    /\ exit_code = NoExit

\* the process ends with exit(code), its last line written: the decorator's
\* message on stdout, or the interpreter's traceback on stderr
ProcessExit(r) ==
    /\ pc' = "Exit"
    /\ exit_code' = r.code
    /\ printed' = IF r.line[1] = "Traceback" THEN <<>> ELSE <<r.line>>
    /\ stdout_log' = IF r.line[1] = "Traceback" THEN stdout_log
                                                ELSE Append(stdout_log, "error")

\* line 219 and the two prints after it
RateLimitDisplay ==
    /\ pc = "Start"
    /\ \E response \in Responses : \E body \in BodiesOf(response, RateLimitBodies) :
         LET r == unhandled(decorator(get_github_rate_limit(response, body))) IN
         /\ http' = Append(http, <<<<"rate_limit">>, response>>)
         /\ outcome' = Ended(r)
         /\ IF r.tag = "return"
            THEN /\ json' = [of |-> "rate_limit", body |-> r.value]
                 /\ printed' = print_github_api_rate_status(r.value)
                                 \o <<<<"loading", top_size, REPOSITORIES_CREATION_PERIOD>>>>
                 /\ stdout_log' = stdout_log \o <<"rate_status", "loading">>
                 /\ pc' = "Trending"
                 /\ UNCHANGED exit_code
            ELSE /\ json' = NoJson
                 /\ ProcessExit(r)
    /\ UNCHANGED <<today, top_size, top_repos, repos_with_issues, repos_info>>

\* lines 228 and 229: the except clause of the main block is entered
EnterExcept ==
    /\ pc' = "Quota"
    /\ printed' = <<<<"rate_limit_exceeded">>>>
    /\ stdout_log' = Append(stdout_log, "rate_limit_exceeded")
    /\ UNCHANGED exit_code

\* lines 225 and 226; with no repository the loop of line 152 has nothing to
\* do and get_repos_with_issues returns at once
TrendingFetch ==
    /\ pc = "Trending"
    /\ \E response \in Responses : \E body \in BodiesOf(response, SearchBodies) :
         LET r == decorator(get_trending_repositories(response, body, top_size)) IN
         /\ http' = Append(http, <<search_request(today), response>>)
         /\ outcome' = Ended(r)
         /\ repos_with_issues' = <<>>
         /\ IF r.tag = "return"
            THEN /\ json' = [of |-> "search", body |-> body]
                 /\ top_repos' = Bound(r.value)
                 /\ repos_info' = IF r.value = <<>> THEN Bound(<<>>) ELSE repos_info
                 /\ pc' = IF r.value = <<>> THEN "Print" ELSE "Enrich"
                 /\ printed' = <<>>
                 /\ UNCHANGED <<stdout_log, exit_code>>
            ELSE /\ json' = NoJson
                 /\ UNCHANGED <<top_repos, repos_info>>
                 /\ IF except_GitHubRateLimitExceeded(r)
                    THEN EnterExcept
                    ELSE ProcessExit(unhandled(r))
    /\ UNCHANGED <<today, top_size>>

\* one iteration of the loop of get_repos_with_issues (lines 152 to 155);
\* after the last one the function returns (line 157) into repos_info
IssueFetch ==
    /\ pc = "Enrich"
    /\ LET repo == top_repos.value[Len(repos_with_issues) + 1] IN
       \E response \in Responses :
       \E issues \in BodiesOf(response, IssuesArrays(repo.owner.login, repo.name)) :
         LET r == decorator(get_open_issues(response, issues))
             it == get_repos_with_issues_iteration(repos_with_issues, repo, r) IN
         /\ http' = Append(http, <<issues_request(repo.owner.login, repo.name), response>>)
         /\ outcome' = Ended(r)
         /\ repos_with_issues' = it.acc
         /\ IF it.tag = "continue"
            THEN /\ json' = IF r.tag = "return" THEN [of |-> "issues", body |-> issues]
                                                ELSE NoJson
                 /\ repos_info' = IF Len(it.acc) = Len(top_repos.value)
                                  THEN Bound(it.acc) ELSE repos_info
                 /\ pc' = IF Len(it.acc) = Len(top_repos.value) THEN "Print" ELSE "Enrich"
                 /\ printed' = <<>>
                 /\ UNCHANGED <<stdout_log, exit_code>>
            ELSE /\ json' = NoJson
                 /\ UNCHANGED repos_info
                 /\ IF except_GitHubRateLimitExceeded(r)
                    THEN EnterExcept
                    ELSE ProcessExit(unhandled(r))
    /\ UNCHANGED <<today, top_size, top_repos>>

\* lines 230 and 231
QuotaRateLimitDisplay ==
    /\ pc = "Quota"
    /\ \E response \in Responses : \E body \in BodiesOf(response, RateLimitBodies) :
         LET r == unhandled(decorator(get_github_rate_limit(response, body))) IN
         /\ http' = Append(http, <<<<"rate_limit">>, response>>)
         /\ outcome' = Ended(r)
         /\ IF r.tag = "return"
            THEN /\ json' = [of |-> "rate_limit", body |-> r.value]
                 /\ printed' = print_github_api_rate_status(r.value)
                 /\ stdout_log' = Append(stdout_log, "rate_status")
                 /\ pc' = "Exit"
                 /\ exit_code' = 1
            ELSE /\ json' = NoJson
                 /\ ProcessExit(r)
    /\ UNCHANGED <<today, top_size, top_repos, repos_with_issues, repos_info>>

\* line 233, then the script ends
PrintReposInfo ==
    /\ pc = "Print"
    /\ printed' = print_repos_info(repos_info.value)
    /\ stdout_log' = Append(stdout_log, "repos_info")
    /\ json' = NoJson
    /\ pc' = "Exit"
    /\ exit_code' = 0
    /\ UNCHANGED <<today, top_size, http, outcome, top_repos, repos_with_issues, repos_info>>

Next ==
    \/ RateLimitDisplay
    \/ TrendingFetch
    \/ IssueFetch
    \/ QuotaRateLimitDisplay
    \/ PrintReposInfo

Spec == Init /\ [][Next]_vars

----------------------------------------------------------------------------
(* The claims *)

Request(k) == http[k][1]
Response(k) == http[k][2]
Exchanges == 1..Len(http)

Received(response) == response.kind = "response"
ZeroRemaining(response) == Received(response) /\ response.remaining = "0"
ErrorStatus(response) == Received(response) /\ response.status # 200
Failed(response) ==
    response.kind \in TransportErrors \/ ErrorStatus(response) \/ ZeroRemaining(response)

\* get_github_rate_limit does not read the quota header
RateLimitQueryFailed(response) ==
    response.kind \in TransportErrors \/ ErrorStatus(response)

IsSearch(request) == request[1] = "search/repositories"
IsIssues(request) == request[1] = "issues"
IsRateLimit(request) == request[1] = "rate_limit"

Printed(kind) == \E k \in 1..Len(stdout_log) : stdout_log[k] = kind
NoRepoLine == \A k \in 1..Len(printed) : printed[k][1] \notin {"owner", "name", "stars", "issues", "url"}

\* C1: a search or issues response whose X-RateLimit-Remaining header is zero
\* makes the call raise GitHubRateLimitExceeded with that response's headers,
\* whatever its status: no HTTP-status error is reported for it, no data is
\* returned, and the main block goes to its except clause.
C1_QuotaShortCircuit ==
    \A k \in Exchanges :
        (IsSearch(Request(k)) \/ IsIssues(Request(k))) /\ ZeroRemaining(Response(k))
        => /\ Printed("rate_limit_exceeded")
           /\ ~Printed("error") \/ (k < Len(http) /\ RateLimitQueryFailed(Response(Len(http))))
           /\ IsSearch(Request(k)) => ~top_repos.bound
           /\ ~repos_info.bound
           /\ k = Len(http) =>
                /\ outcome.tag = "raise"
                /\ outcome.exc = "GitHubRateLimitExceeded"
                /\ outcome.response = Response(k)
                /\ pc = "Quota"
           /\ k < Len(http) => k + 1 = Len(http) /\ IsRateLimit(Request(k + 1))

\* C1 witness: an issues response with status 500 and a zero header has raised
\* the quota condition
C1_Witness ==
    /\ pc = "Quota"
    /\ IsIssues(Request(Len(http)))
    /\ Response(Len(http)).status = 500
    /\ Response(Len(http)).remaining = "0"
    /\ outcome.tag = "raise"

SearchQuotaExceeded ==
    \E k \in Exchanges : IsSearch(Request(k)) /\ ZeroRemaining(Response(k))

NoEnrichment ==
    /\ \A k \in Exchanges : ~IsIssues(Request(k))
    /\ ~Printed("repos_info")
    /\ NoRepoLine
    /\ ~repos_info.bound

\* C2 as stated: once the search response carried remaining = 0 the run ends
\* with the quota status printed again and exit code 1, and never sends an
\* issues request nor prints repository information.
C2_Original ==
    SearchQuotaExceeded
    => /\ NoEnrichment
       /\ pc \in {"Quota", "Exit"}
       /\ pc = "Exit" =>
            /\ exit_code = 1
            /\ stdout_log = <<"rate_status", "loading", "rate_limit_exceeded", "rate_status">>

\* C2 amended: once the search response carried remaining = 0 the run prints
\* the quota-exceeded line, sends one more rate-limit query and ends with exit
\* code 1, never sending an issues request nor printing repository
\* information; the quota status is printed again when that query succeeds,
\* the decorator's error line when it fails.
C2_SearchQuotaBranch ==
    SearchQuotaExceeded
    => /\ NoEnrichment
       /\ pc \in {"Quota", "Exit"}
       /\ pc = "Quota" =>
            /\ Len(http) = 2
            /\ printed = <<<<"rate_limit_exceeded">>>>
       /\ pc = "Exit" =>
            /\ exit_code = 1
            /\ Len(http) = 3
            /\ IsRateLimit(Request(3))
            /\ IF RateLimitQueryFailed(Response(3))
               THEN stdout_log = <<"rate_status", "loading", "rate_limit_exceeded", "error">>
               ELSE /\ stdout_log = <<"rate_status", "loading", "rate_limit_exceeded",
                                      "rate_status">>
                    /\ json.of = "rate_limit"
                    /\ printed = print_github_api_rate_status(json.body)

\* C2 witness: the run ended after a zero header on the search call, the quota
\* status printed again
C2_Witness ==
    /\ pc = "Exit"
    /\ SearchQuotaExceeded
    /\ Len(stdout_log) = 4
    /\ stdout_log[4] = "rate_status"

IssueFetchFailed ==
    \E k \in Exchanges : IsIssues(Request(k)) /\ Failed(Response(k))

\* C3: once an issue fetch failed (transport error, error status or exhausted
\* quota), whatever its position in the batch, get_repos_with_issues returns
\* nothing, print_repos_info is not called, no repository line is printed and
\* the process ends with exit code 1.
C3_NoPartialResults ==
    IssueFetchFailed
    => /\ ~repos_info.bound
       /\ repos_with_issues = <<>>
       /\ ~Printed("repos_info")
       /\ NoRepoLine
       /\ pc \in {"Quota", "Exit"}
       /\ pc = "Exit" => exit_code = 1

\* C3 witness: the second issue fetch of the batch failed after the first one
\* succeeded, and the run is over
C3_Witness ==
    /\ pc = "Exit"
    /\ Len(http) >= 4
    /\ IsIssues(Request(3)) /\ ~Failed(Response(3))
    /\ IsIssues(Request(4)) /\ Failed(Response(4))

\* C4: a transport failure (connection error, timeout, too many redirects) on
\* an HTTP call is the last HTTP call of the run: the decorator prints the
\* line of that failure and the process exits with code 1.  On the first call
\* nothing else was requested or printed.
C4_TransportFailureStops ==
    \A k \in Exchanges :
        Response(k).kind \in TransportErrors
        => /\ k = Len(http)
           /\ pc = "Exit"
           /\ exit_code = 1
           /\ printed = <<<<Response(k).kind>>>>
           /\ stdout_log[Len(stdout_log)] = "error"
           /\ k = 1 => stdout_log = <<"error">>

\* C4 witness: the connection failed on the first call, the rate-limit query
C4_Witness ==
    /\ Len(http) = 1
    /\ IsRateLimit(Request(1))
    /\ Response(1).kind = "ConnectionError"
    /\ pc = "Exit"

\* the k-th query failed; header_read tells whether a zero quota header counts
\* as a failure of a rate-limit query too
FailedAt(k, header_read) ==
    IF IsRateLimit(Request(k)) /\ ~header_read
    THEN RateLimitQueryFailed(Response(k))
    ELSE Failed(Response(k))

\* what the run has to have done for the script to reach its last line
QueriesSucceeded(header_read) ==
    /\ top_repos.bound
    /\ Len(http) = 2 + Len(top_repos.value)
    /\ IsRateLimit(Request(1)) /\ ~FailedAt(1, header_read)
    /\ IsSearch(Request(2)) /\ ~Failed(Response(2))
    /\ \A k \in 3..Len(http) : IsIssues(Request(k)) /\ ~Failed(Response(k))

ExitCodes(header_read) ==
    /\ pc = "Exit" <=> exit_code \in {0, 1}
    /\ pc # "Exit" <=> exit_code = NoExit
    /\ exit_code = 0 =>
         /\ QueriesSucceeded(header_read)
         /\ repos_info.bound
         /\ stdout_log = <<"rate_status", "loading", "repos_info">>
         /\ printed = print_repos_info(repos_info.value)
    /\ pc = "Exit" /\ (\E k \in Exchanges : FailedAt(k, header_read)) => exit_code = 1

\* C5 as stated: the run ends with exit code 0 or 1; 0 only when the rate-limit
\* query, the search query and every issue query succeeded with non-zero
\* remaining quota and the enriched list was printed; 1 on any network error,
\* HTTP error status, timeout, redirect loop or exhausted quota at any stage.
C5_Original == ExitCodes(TRUE)

\* the steps the main block may still take: one per HTTP call not yet made
\* (a rate-limit query, the search, top_size issue fetches, the rate-limit
\* query of the except clause) and the last print
StepsLeft == IF pc = "Exit" THEN 0 ELSE 4 + top_size - Len(http)

\* C5 amended: every run terminates with exit code 0 or 1; 0 only when the
\* rate-limit query succeeded (its quota header is not read), the search query
\* and every issue query succeeded with non-zero remaining quota and the
\* enriched list was printed; 1 on any network error, HTTP error status,
\* timeout or redirect loop at any stage (the second rate-limit query
\* included) and on a zero quota header of the search or of an issues response.
\* Termination is stated by a variant: before the exit a step is always
\* possible, and every step brings StepsLeft down, never below 0.
C5_ExitCodes ==
    /\ []ExitCodes(FALSE)
    /\ [](pc # "Exit" => ENABLED Next)
    /\ [][StepsLeft' < StepsLeft /\ StepsLeft' >= 0]_vars

\* C5 witness: the run ended with exit code 0 after two issue fetches
C5_Witness ==
    /\ pc = "Exit"
    /\ exit_code = 0
    /\ Len(http) = 4

\* the urls of the entries of an issues array that carry no 'pull_request'
\* key, in the order of the array
NotPullRequest(issues) == {k \in 1..Len(issues) : ~issues[k].has_pull_request}
NthOf(S, n) == CHOOSE k \in S : Cardinality({m \in S : m <= k}) = n
UrlsOfIssues(issues) ==
    [n \in 1..Cardinality(NotPullRequest(issues)) |->
        issues[NthOf(NotPullRequest(issues), n)].url]

\* C6: get_repos_with_issues sends one issues request per repository, in input
\* order, and its i-th item pairs the i-th input repository with urls of that
\* repository's own issues; the item appended last holds the urls of the
\* issues (pull requests excluded) of the response just parsed.  When it
\* returns, the list is as long as the input.
C6_EnrichmentOrder ==
    /\ top_repos.bound /\ pc \in {"Enrich", "Print"} =>
         /\ Len(http) = 2 + Len(repos_with_issues)
         /\ \A i \in 1..Len(repos_with_issues) :
              /\ repos_with_issues[i].repo = top_repos.value[i]
              /\ Request(2 + i) = <<"issues", top_repos.value[i].owner.login,
                                    top_repos.value[i].name, "open">>
              /\ \A u \in 1..Len(repos_with_issues[i].open_issues_urls) :
                   /\ repos_with_issues[i].open_issues_urls[u][1]
                        = top_repos.value[i].owner.login
                   /\ repos_with_issues[i].open_issues_urls[u][2] = top_repos.value[i].name
         /\ json.of = "issues" =>
              repos_with_issues[Len(repos_with_issues)].open_issues_urls
                = UrlsOfIssues(json.body)
    /\ repos_info.bound =>
         /\ Len(repos_info.value) = Len(top_repos.value)
         /\ \A i \in 1..Len(repos_info.value) :
              repos_info.value[i].repo = top_repos.value[i]
         /\ pc = "Print" => repos_info.value = repos_with_issues

\* C6 witness: two repositories enriched, each with urls of its own
C6_Witness ==
    /\ pc = "Print"
    /\ repos_info.bound
    /\ Len(repos_info.value) = 2
    /\ Len(repos_info.value[1].open_issues_urls) = 2
    /\ Len(repos_info.value[2].open_issues_urls) = 1

\* C7: what get_open_issues returns for a parsed issues array is exactly the
\* entries without the 'pull_request' key, in the order of the array: as many
\* as there are such entries, none with the key, the n-th being the n-th such
\* entry of the array.
C7_IssueFiltering ==
    json.of = "issues" =>
        LET urls == repos_with_issues[Len(repos_with_issues)].open_issues_urls IN
        /\ Len(urls) = Cardinality(NotPullRequest(json.body))
        /\ \A n \in 1..Len(urls) :
             \E k \in NotPullRequest(json.body) :
                /\ json.body[k].url = urls[n]
                /\ Cardinality({m \in NotPullRequest(json.body) : m < k}) = n - 1
        /\ \A k \in 1..Len(json.body) :
             json.body[k].has_pull_request => \A n \in 1..Len(urls) : urls[n] # json.body[k].url

\* C7 witness: two open issues and one pull request, the pull request between
\* them, enriched with two urls
C7_Witness ==
    /\ json.of = "issues"
    /\ Len(json.body) = 3
    /\ ~json.body[1].has_pull_request
    /\ json.body[2].has_pull_request
    /\ ~json.body[3].has_pull_request
    /\ Len(repos_with_issues[Len(repos_with_issues)].open_issues_urls) = 2

\* C8: a successful get_trending_repositories(session, N) returns at most N
\* repositories: the first min(N, number of items) entries of the items array,
\* in its order.
C8_TopSize ==
    json.of = "search" =>
        /\ top_repos.bound
        /\ Len(top_repos.value) <= top_size
        /\ Len(top_repos.value) = Min(top_size, Len(json.body.items))
        /\ \A k \in 1..Len(top_repos.value) : top_repos.value[k] = json.body.items[k]

\* C8 witness: two items in the response, N = 1
C8_Witness ==
    /\ json.of = "search"
    /\ Len(json.body.items) = 2
    /\ top_size = 1
    /\ Len(top_repos.value) = 1

Cutoff == today - REPOSITORIES_CREATION_PERIOD

\* C9 as stated: no repository the trending fetch returns was created before
\* the cutoff date, whatever body the search endpoint hands back.
C9_Original ==
    top_repos.bound =>
        \A k \in 1..Len(top_repos.value) : top_repos.value[k].created_at >= Cutoff

\* C9 amended: the trending fetch asks for the repositories created after the
\* cutoff date (today minus REPOSITORIES_CREATION_PERIOD days) and returns the
\* first items of the response without looking at their creation dates: no
\* returned repository was created before the cutoff provided every item of
\* the response body answers the query.
C9_CutoffInQuery ==
    json.of = "search" =>
        /\ Request(2) = <<"search/repositories", Cutoff, "stars", "desc">>
        /\ (\A k \in 1..Len(json.body.items) : json.body.items[k].created_at > Request(2)[2])
             => \A k \in 1..Len(top_repos.value) : top_repos.value[k].created_at >= Cutoff

\* C9 witness: a response whose items all answer the query, one of them returned
C9_Witness ==
    /\ json.of = "search"
    /\ Len(json.body.items) = 2
    /\ \A k \in 1..2 : json.body.items[k].created_at > Cutoff
    /\ Len(top_repos.value) >= 1

QuotaLines(api_rate, category) ==
    IF category \in DOMAIN api_rate.resources
    THEN << <<category, api_rate.resources[category].remaining,
                        api_rate.resources[category].limit>>,
            <<category \o "_reset",
              strftime_localtime(api_rate.resources[category].reset)>> >>
    ELSE <<>>

\* C10: print_github_api_rate_status prints, for each quota category present
\* (search, graphql when present, core), that category's own remaining and
\* limit counts and the reset time of that category's own reset timestamp.
C10_OwnQuotaValues ==
    json.of = "rate_limit" =>
        SubSeq(printed, 1, 2 * Cardinality(DOMAIN json.body.resources))
          = QuotaLines(json.body, "search") \o QuotaLines(json.body, "graphql")
              \o QuotaLines(json.body, "core")

====
